---- MODULE Spec2Model ----
(***************************************************************************)
(* Model of _schema_parser.py: the generator that turns the definitions of *)
(* the vegalite JSON schema into Python wrapper modules.                   *)
(*                                                                         *)
(* Python strings are modelled as sequences of one-character strings so    *)
(* that formatting, sorting, splitting and lower-casing are computed the   *)
(* way the interpreter computes them.  A Python dict is a sequence of      *)
(* <<key, value>> pairs in insertion order, except attribute descriptors   *)
(* and the schema's definitions, which are functions keyed by their keys   *)
(* (the code only tests membership, indexes them, or sorts their keys).    *)
(***************************************************************************)
EXTENDS Integers, Sequences, FiniteSets, TLC

(***************************************************************************)
(* Characters and strings                                                  *)
(***************************************************************************)

\* the character U+0060, which cannot be written inside a TLA+ string
Backquote == "BACKQUOTE"

\* the printable ASCII characters, code points 32 to 126, in order
Printable ==
    <<" ","!","\"","#","$","%","&","'","(",")","*","+",",","-",".","/","0","1","2","3","4","5",
      "6","7","8","9",":",";","<","=",">","?","@","A","B","C","D","E","F","G","H","I","J","K",
      "L","M","N","O","P","Q","R","S","T","U","V","W","X","Y","Z","[","\\","]","^","_",
      Backquote,"a","b","c","d","e","f","g","h","i","j","k","l","m","n","o","p","q","r","s","t",
      "u","v","w","x","y","z","{","|","}","~">>

\* ord(c): the code point of a character
Ord(c) == IF c = "\n" THEN 10 ELSE 31 + (CHOOSE i \in DOMAIN Printable : Printable[i] = c)

\* chr(n) for a printable code point
Chr(n) == Printable[n - 31]

\* str.lower() on one character (ASCII): the capitals move up by 32 code points
LowerChar(c) ==
    LET lower(n) == IF n >= 65 /\ n <= 90 THEN Chr(n + 32) ELSE c
    IN  lower(Ord(c))

\* str.lower()
Lower(s) == [i \in 1..Len(s) |-> LowerChar(s[i])]

Min(S) == CHOOSE x \in S : \A y \in S : x <= y

Max(S) == CHOOSE x \in S : \A y \in S : x >= y

\* s < t for Python strings: lexicographic by code point
TextLess(s, t) ==
    LET at(diff) == IF diff = {} THEN Len(s) < Len(t)
                    ELSE \E i \in {Min(diff)} : Ord(s[i]) < Ord(t[i])
    IN  at({i \in 1..Min({Len(s), Len(t)}) : s[i] # t[i]})

\* one step of a stable insertion sort on strings
InsertText(seq, x) ==
    LET at(k) == SubSeq(seq, 1, k) \o <<x>> \o SubSeq(seq, k + 1, Len(seq))
    IN  at(Cardinality({i \in 1..Len(seq) : ~TextLess(x, seq[i])}))

RECURSIVE sorted(_)
\* sorted(iterable of str)
sorted(seq) ==
    IF seq = <<>> THEN <<>>
    ELSE InsertText(sorted(SubSeq(seq, 1, Len(seq) - 1)), seq[Len(seq)])

\* one step of a stable insertion sort on (key, value) tuples with distinct keys
InsertItem(items, x) ==
    LET at(k) == SubSeq(items, 1, k) \o <<x>> \o SubSeq(items, k + 1, Len(items))
    IN  at(Cardinality({i \in 1..Len(items) : ~TextLess(x[1], items[i][1])}))

RECURSIVE sorted_items(_)
\* sorted(d.items()) for a dict d: the keys are distinct, so the keys decide
sorted_items(items) ==
    IF items = <<>> THEN <<>>
    ELSE InsertItem(sorted_items(SubSeq(items, 1, Len(items) - 1)), items[Len(items)])

RECURSIVE join(_, _)
\* sep.join(parts)
join(sep, parts) ==
    IF parts = <<>> THEN <<>>
    ELSE IF Len(parts) = 1 THEN parts[1]
    ELSE parts[1] \o sep \o join(sep, Tail(parts))

\* the positions at which pat occurs in s
Occurrences(s, pat) ==
    {i \in 1..(Len(s) - Len(pat) + 1) : SubSeq(s, i, i + Len(pat) - 1) = pat}

\* s.split(pat)[0]
SplitHead(s, pat) ==
    LET upto(found) == IF found = {} THEN s ELSE SubSeq(s, 1, Min(found) - 1)
    IN  upto(Occurrences(s, pat))

RECURSIVE split(_, _)
\* s.split(pat)
split(s, pat) ==
    LET cut(i) == <<SubSeq(s, 1, i - 1)>> \o split(SubSeq(s, i + Len(pat), Len(s)), pat)
        at(found) == IF found = {} THEN <<s>> ELSE cut(Min(found))
    IN  at(Occurrences(s, pat))

RECURSIVE rstrip(_)
\* s.rstrip()
rstrip(s) ==
    IF s # <<>> /\ s[Len(s)] \in {" ", "\n", "\t"} THEN rstrip(SubSeq(s, 1, Len(s) - 1))
    ELSE s

RECURSIVE str(_)
\* str(n) for a natural number n
str(n) ==
    IF n < 10 THEN <<Chr(48 + n)>>
    ELSE str(n \div 10) \o <<Chr(48 + (n % 10))>>

(***************************************************************************)
(* String literals of the source                                           *)
(***************************************************************************)

s_object == <<"o","b","j","e","c","t">>

s_string == <<"s","t","r","i","n","g">>

s_array == <<"a","r","r","a","y">>

s_boolean == <<"b","o","o","l","e","a","n">>

s_number == <<"n","u","m","b","e","r">>

s_integer == <<"i","n","t","e","g","e","r">>

s_allow_none == <<"a","l","l","o","w","_","n","o","n","e">>

s_default_value == <<"d","e","f","a","u","l","t","_","v","a","l","u","e">>

s_help == <<"h","e","l","p">>

s_min == <<"m","i","n">>

s_max == <<"m","a","x">>

s_True == <<"T","r","u","e">>

s_None == <<"N","o","n","e">>

s_eg == <<"(","e",".","g",".">>

s_List == <<"L","i","s","t">>

s_Bool == <<"B","o","o","l">>

s_CFloat == <<"C","F","l","o","a","t">>

s_Unicode == <<"U","n","i","c","o","d","e">>

s_Any == <<"A","n","y">>

s_Instance == <<"I","n","s","t","a","n","c","e">>

s_import_traitlets == <<"i","m","p","o","r","t"," ","t","r","a","i","t","l","e","t","s"," ","a","s"," ","T">>

s_import_baseobject == <<"f","r","o","m"," ",".",".","b","a","s","e","o","b","j","e","c","t"," ","i","m","p","o","r","t"," ","B","a","s","e","O","b","j","e","c","t">>

s_unrecognized == <<"u","n","r","e","c","o","g","n","i","z","e","d"," ","a","t","t","r","i","b","u","t","e"," ","k","e","y","s">>

file_comment ==
    <<"#"," ","T","h","i","s"," ","f","i","l","e"," ","a","u","t","o","-","g","e","n","e","r",
      "a","t","e","d"," ","b","y"," ",Backquote,"_","s","c","h","e","m","a","_","p","a","r","s",
      "e","r",".","p","y",Backquote,".","\n","#"," ","D","o"," ","n","o","t"," ","m","o","d",
      "i","f","y"," ","t","h","i","s"," ","f","i","l","e"," ","d","i","r","e","c","t","l","y",
      ".">>

(***************************************************************************)
(* Exceptions and results                                                  *)
(***************************************************************************)

NoError == [exc |-> "", msg |-> <<>>]

\* no call has ended, or what it returned has been consumed
NoReturn == [ok |-> FALSE, text |-> <<>>, err |-> NoError]

\* a call that returned text, leaving self.imports as given
Returned(text, imports) == [ok |-> TRUE, text |-> text, imports |-> imports, err |-> NoError]

\* a call that raised exc(msg), leaving self.imports as given
Raised(exc, msg, imports) ==
    [ok |-> FALSE, text |-> <<>>, imports |-> imports, err |-> [exc |-> exc, msg |-> msg]]

(***************************************************************************)
(* SchemaDefinition                                                        *)
(***************************************************************************)

test_template(name) ==
    <<"f","r","o","m"," ",".",".","."," ","i","m","p","o","r","t"," ">> \o name \o <<"\n","\n","\n","d","e","f"," ","t","e","s","t","_">> \o name \o <<"(",")",":","\n"," "," "," "," ","o","b","j"," ","="," ">> \o name \o <<"(",")","\n">>

\* SchemaDefinition.format_help_string
format_help_string(help_str, summarize) ==
    <<"\"","\"","\"">>
    \o rstrip(IF summarize THEN SplitHead(SplitHead(help_str, s_eg), <<".">>) ELSE help_str)
    \o <<".","\"","\"","\"">>

\* SchemaDefinition.kwds_to_str; kwds is a dict
kwds_to_str(kwds) ==
    LET vals(nohelp) ==
            join(<<","," ">>, [i \in 1..Len(nohelp) |-> nohelp[i][1] \o <<"=">> \o nohelp[i][2]])
        withhelp(v, help) == IF help # <<>> THEN v \o <<","," ","h","e","l","p","=">> \o help[1][2] ELSE v
    IN  withhelp(vals(SelectSeq(sorted_items(kwds), LAMBDA kv : kv[1] # s_help)),
                 SelectSeq(kwds, LAMBDA kv : kv[1] = s_help))

\* SchemaDefinition.get_attr_kwds; the numbers of minimum and maximum are kept
\* as the text that format() makes of them in kwds_to_str
get_attr_kwds(attr_dict) ==
    <<<<s_allow_none, s_True>>, <<s_default_value, s_None>>>>
    \o (IF "description" \in DOMAIN attr_dict
        THEN <<<<s_help, format_help_string(attr_dict["description"], TRUE)>>>> ELSE <<>>)
    \o (IF "minimum" \in DOMAIN attr_dict THEN <<<<s_min, str(attr_dict["minimum"])>>>> ELSE <<>>)
    \o (IF "maximum" \in DOMAIN attr_dict THEN <<<<s_max, str(attr_dict["maximum"])>>>> ELSE <<>>)

\* SchemaDefinition.test_script
test_script(name) == file_comment \o <<"\n","\n">> \o test_template(name)

(***************************************************************************)
(* StringDefinition                                                        *)
(***************************************************************************)

enum_template(cls, values) ==
    <<"c","l","a","s","s"," ">> \o cls \o <<"(","T",".","E","n","u","m",")",":","\n">>
    \o <<" "," "," "," ","d","e","f"," ","_","_","i","n","i","t","_","_","(","s","e","l","f",","," ","d","e","f","a","u","l","t","_","v","a","l","u","e","=","T",".","U","n","d","e","f","i","n","e","d",","," ","*","*","m","e","t","a","d","a","t","a",")",":","\n">>
    \o <<" "," "," "," "," "," "," "," ","s","u","p","e","r","(">> \o cls \o <<","," ","s","e","l","f",")",".","_","_","i","n","i","t","_","_","(">> \o values \o <<",","\n">>
    \o <<" "," "," "," "," "," "," "," "," "," "," "," "," "," "," "," "," "," "," "," "," "," "," "," "," "," "," "," "," "," "," "," "," "," "," "," ","d","e","f","a","u","l","t","_","v","a","l","u","e","=","d","e","f","a","u","l","t","_","v","a","l","u","e",",","\n">>
    \o <<" "," "," "," "," "," "," "," "," "," "," "," "," "," "," "," "," "," "," "," "," "," "," "," "," "," "," "," "," "," "," "," "," "," "," "," ","*","*","m","e","t","a","d","a","t","a",")">>

string_template(cls) == <<"c","l","a","s","s"," ">> \o cls \o <<"(","T",".","U","n","i","c","o","d","e",")",":","\n"," "," "," "," ","p","a","s","s">>

\* str(list of str), as format() renders the enum values
list_repr(values) ==
    <<"[">> \o join(<<","," ">>, [i \in 1..Len(values) |-> <<"'">> \o values[i] \o <<"'">>]) \o <<"]">>

\* StringDefinition.__init__: the import list of a new object
StringDefinition_imports == <<s_import_traitlets>>

\* StringDefinition.code
StringDefinition_code(name, definitions, imports) ==
    IF "enum" \in DOMAIN definitions[name]
    THEN Returned(enum_template(name, list_repr(definitions[name]["enum"])), imports)
    ELSE Returned(string_template(name), imports)

(***************************************************************************)
(* ObjectDefinition                                                        *)
(***************************************************************************)

class_template(name) == <<"c","l","a","s","s"," ">> \o name \o <<"(","B","a","s","e","O","b","j","e","c","t",")",":","\n">>

attr_template(key, val) == <<" "," "," "," ">> \o key \o <<" ","="," ">> \o val \o <<"\n">>

\* ObjectDefinition.__init__: the import list of a new object
ObjectDefinition_imports == <<s_import_traitlets, s_import_baseobject>>

\* ObjectDefinition.instance_str
instance_str(cls, args, kwds) ==
    <<"T",".">> \o cls \o <<"(">>
    \o (IF args # <<>> THEN join(<<","," ">>, sorted(args)) \o <<","," ">> ELSE <<>>)
    \o kwds_to_str(kwds) \o <<")">>

\* any_attribute_switch rejecting every descriptor that does not hold exactly one
\* of the three keys
any_attribute_switch_strict(attr_dict) ==
    IF Cardinality(DOMAIN attr_dict \cap {"type", "$ref", "oneOf"}) # 1 THEN "else"
    ELSE IF "type" \in DOMAIN attr_dict THEN "type"
    ELSE IF "$ref" \in DOMAIN attr_dict THEN "$ref"
    ELSE "oneOf"

\* the branch any_attribute takes
any_attribute_switch(attr_dict) ==
    IF "type" \in DOMAIN attr_dict THEN "type"
    ELSE IF "$ref" \in DOMAIN attr_dict THEN "$ref"
    ELSE IF "oneOf" \in DOMAIN attr_dict THEN "oneOf"
    ELSE "else"

\* the scalar branches of type_attribute
type_attribute_scalar(tp, kwds, imports) ==
    LET cls == IF tp = s_boolean THEN s_Bool
               ELSE IF tp = s_number THEN s_CFloat
               ELSE IF tp = s_string THEN s_Unicode
               ELSE IF tp = s_object THEN s_Any
               ELSE <<>>
    IN  IF cls # <<>> THEN Returned(instance_str(cls, <<>>, kwds), imports)
        ELSE Raised("NotImplementedError", tp, imports)

\* ObjectDefinition.ref_attribute
ref_attribute(definitions, imports, attr_dict) ==
    LET typed(kwds, name, imports2, reftype) ==
            IF reftype = s_object
            THEN Returned(instance_str(s_Instance, <<name>>, kwds), imports2)
            ELSE IF reftype = s_string
            THEN Returned(name \o <<"(">> \o kwds_to_str(kwds) \o <<")">>, imports2)
            ELSE Raised("NotImplementedError", <<"t","y","p","e"," ","="," ","'">> \o reftype \o <<"'">>, imports2)
        named(kwds, name, imports2) ==
            IF name \notin DOMAIN definitions THEN Raised("KeyError", name, imports2)
            ELSE typed(kwds, name, imports2, definitions[name]["type"])
        parsed(kwds, parts) ==
            IF Len(parts) # 3 THEN Raised("ValueError", <<>>, imports)
            ELSE named(kwds, parts[3],
                       Append(imports, <<"f","r","o","m"," ",".">> \o Lower(parts[3]) \o <<" ","i","m","p","o","r","t"," ">>
                                       \o parts[3]))
    IN  parsed(get_attr_kwds(attr_dict), split(attr_dict["$ref"], <<"/">>))

\* oneof_render without the sort: the alternatives in declared order
oneof_render_unsorted(types) == <<"T",".","U","n","i","o","n","(","[">> \o join(<<","," ">>, types) \o <<"]",")">>

\* the last line of oneof_attribute, given the rendered alternatives
oneof_render(types) == <<"T",".","U","n","i","o","n","(","[">> \o join(<<","," ">>, sorted(types)) \o <<"]",")">>

RECURSIVE any_attribute(_, _, _)
RECURSIVE type_attribute(_, _, _)
RECURSIVE oneof_types(_, _, _, _)

\* the generator of oneof_attribute, consumed by sorted(): the alternatives are
\* resolved in declared order and the first exception ends it
oneof_types(definitions, imports, alts, types) ==
    IF alts = <<>> THEN [ok |-> TRUE, types |-> types, imports |-> imports, err |-> NoError]
    ELSE LET next(r) ==
                 IF r.ok
                 THEN oneof_types(definitions, r.imports, Tail(alts), Append(types, r.text))
                 ELSE [ok |-> FALSE, types |-> types, imports |-> r.imports, err |-> r.err]
         IN  next(any_attribute(definitions, imports, Head(alts)))

\* ObjectDefinition.oneof_attribute
oneof_attribute(definitions, imports, attr_dict) ==
    LET render(r) == IF r.ok THEN Returned(oneof_render(r.types), r.imports)
                     ELSE Raised(r.err.exc, r.err.msg, r.imports)
    IN  render(oneof_types(definitions, imports, attr_dict["oneOf"], <<>>))

\* ObjectDefinition.type_attribute
type_attribute(definitions, imports, attr_dict) ==
    LET list(kwds, typename) ==
            IF typename.ok
            THEN Returned(instance_str(s_List, <<typename.text>>, kwds), typename.imports)
            ELSE typename
        typed(kwds, tp) ==
            IF tp = s_array
            THEN IF "items" \notin DOMAIN attr_dict
                 THEN Raised("KeyError", <<"i","t","e","m","s">>, imports)
                 ELSE list(kwds, any_attribute(definitions, imports, attr_dict["items"]))
            ELSE type_attribute_scalar(tp, kwds, imports)
    IN  typed(get_attr_kwds(attr_dict), attr_dict["type"])

\* ObjectDefinition.any_attribute
any_attribute(definitions, imports, attr_dict) ==
    LET branch(key) ==
            CASE key = "type" -> type_attribute(definitions, imports, attr_dict)
              [] key = "$ref" -> ref_attribute(definitions, imports, attr_dict)
              [] key = "oneOf" -> oneof_attribute(definitions, imports, attr_dict)
              [] OTHER -> Raised("NotImplementedError", s_unrecognized, imports)
    IN  branch(any_attribute_switch(attr_dict))

\* code_items without the sort: the properties in the order of the input
code_items_unsorted(prop_dict) == prop_dict

\* children with ref_attribute resolving the properties of the definition it
\* references
children_descending(definitions, attr_dict) ==
    LET props(parts) ==
            IF Len(parts) = 3 /\ parts[3] \in DOMAIN definitions
               /\ "properties" \in DOMAIN definitions[parts[3]]
            THEN [i \in DOMAIN definitions[parts[3]]["properties"] |->
                     definitions[parts[3]]["properties"][i][2]]
            ELSE <<>>
        of(key) ==
            IF key = "type"
            THEN IF attr_dict["type"] = s_array /\ "items" \in DOMAIN attr_dict
                 THEN <<attr_dict["items"]>> ELSE <<>>
            ELSE IF key = "oneOf" THEN attr_dict["oneOf"]
            ELSE IF key = "$ref" THEN props(split(attr_dict["$ref"], <<"/">>))
            ELSE <<>>
    IN  of(any_attribute_switch(attr_dict))

\* the descriptors on which the call any_attribute(attr_dict) calls any_attribute,
\* in order: the items of an array, the alternatives of a oneOf; ref_attribute
\* reads the type of the definition it references and calls nothing
children(definitions, attr_dict) ==
    LET of(key) ==
            IF key = "type"
            THEN IF attr_dict["type"] = s_array /\ "items" \in DOMAIN attr_dict
                 THEN <<attr_dict["items"]>> ELSE <<>>
            ELSE IF key = "oneOf" THEN attr_dict["oneOf"]
            ELSE <<>>
    IN  of(any_attribute_switch(attr_dict))

\* what any_attribute(attr_dict) returns once the calls it made have returned types
resumed(definitions, imports, attr_dict, types) ==
    LET of(key) ==
            IF key = "type"
            THEN Returned(instance_str(s_List, <<types[1]>>, get_attr_kwds(attr_dict)),
                          imports)
            ELSE IF key = "oneOf" THEN Returned(oneof_render(types), imports)
            ELSE ref_attribute(definitions, imports, attr_dict)
    IN  of(any_attribute_switch(attr_dict))

\* the order in which code() visits the properties
code_items(prop_dict) == sorted_items(prop_dict)

RECURSIVE code_attrs(_, _, _, _)
\* the generator expression of ObjectDefinition.code, joined: one attr_template
\* line per item, the first exception ends it
code_attrs(definitions, imports, items, text) ==
    IF items = <<>> THEN Returned(text, imports)
    ELSE LET next(r) ==
                 IF r.ok
                 THEN code_attrs(definitions, r.imports, Tail(items),
                                 text \o attr_template(Head(items)[1], r.text))
                 ELSE r
         IN  next(any_attribute(definitions, imports, Head(items)[2]))

\* ObjectDefinition.code
ObjectDefinition_code(name, definitions, imports) ==
    LET prop_dict == definitions[name]["properties"]
        format(r) == IF r.ok THEN Returned(class_template(name) \o r.text, r.imports) ELSE r
    IN  format(code_attrs(definitions, imports, code_items(prop_dict), <<>>))

\* self.code() of an object of class cls
code(cls, name, definitions, imports) ==
    IF cls = "ObjectDefinition" THEN ObjectDefinition_code(name, definitions, imports)
    ELSE StringDefinition_code(name, definitions, imports)

\* SchemaDefinition.class_definition
class_definition(cls, name, definitions, imports) ==
    LET format(r) ==
            IF r.ok
            THEN Returned(file_comment \o <<"\n","\n">> \o join(<<"\n">>, r.imports)
                          \o <<"\n","\n","\n">> \o r.text \o <<"\n">>, r.imports)
            ELSE r
    IN  format(code(cls, name, definitions, imports))

\* SchemaDefinition.init: the class of the object made for a definition
SchemaDefinition_init(name, definitions) ==
    LET typ == definitions[name]["type"]
    IN  IF typ = s_object
        THEN [ok |-> TRUE, cls |-> "ObjectDefinition", imports |-> ObjectDefinition_imports,
              err |-> NoError]
        ELSE IF typ = s_string
        THEN [ok |-> TRUE, cls |-> "StringDefinition", imports |-> StringDefinition_imports,
              err |-> NoError]
        ELSE [ok |-> FALSE, cls |-> "", imports |-> <<>>,
              err |-> [exc |-> "NotImplementedError",
                       msg |-> <<"D","e","f","i","n","i","t","i","o","n"," ","t","y","p","e","=","'">> \o typ \o <<"'">>]]

(***************************************************************************)
(* Inputs: schema documents                                                *)
(***************************************************************************)

n_A == <<"A">>

n_B == <<"B">>

n_a == <<"a">>

\* {"$ref": "#/definitions/<name>"}
Ref(name) == ("$ref" :> (<<"#","/","d","e","f","i","n","i","t","i","o","n","s","/">> \o name))

\* {"type": "array", "items": items}
ArrayOf(items) == ("type" :> s_array) @@ ("items" :> items)

\* {"oneOf": alts}
OneOf(alts) == ("oneOf" :> alts)

\* {"type": "object", "properties": props}
ObjectDef(props) == [type |-> s_object, properties |-> props]

StringDef == [type |-> s_string]

EnumDef(values) == [type |-> s_string, enum |-> values]

\* a definition of a type the generator does not support
ArrayDef == [type |-> s_array]

d_size == <<"S","i","z","e"," ","i","n"," ","p","x","."," ","D","e","f","a","u","l","t"," ","(","e",".","g","."," ","3","0",")">>

\* the property descriptors of the object definitions generated in SpecGen
GenAttrs ==
    { ("type" :> s_number) @@ ("minimum" :> 0) @@ ("description" :> d_size),
      Ref(n_A), Ref(n_B), ArrayOf(Ref(n_B)), OneOf(<<Ref(n_B), Ref(n_A)>>) }

PropKeys == {<<"a">>, <<"b">>}

\* the property dicts over PropKeys: distinct keys, in any insertion order
PropDicts(attrs) ==
    {<<>>}
    \cup {<<<<k, v>>>> : k \in PropKeys, v \in attrs}
    \cup {<<<<k[1], v[1]>>, <<k[2], v[2]>>>> :
            k \in {kk \in PropKeys \X PropKeys : kk[1] # kk[2]}, v \in attrs \X attrs}

\* what the document holds beside definition A: nothing, or a definition B
GenOthers ==
    { <<>>, (n_B :> ObjectDef(<<>>)), (n_B :> EnumDef(<<<<"x">>, <<"y">>>>)),
      (n_B :> ObjectDef(<<<<<<"a">>, Ref(n_A)>>>>)), (n_B :> ArrayDef) }

GenSchemas == {(n_A :> ObjectDef(p)) @@ o : p \in PropDicts(GenAttrs), o \in GenOthers}

\* the number of calls made on the definition objects in SpecGen
MaxCalls == 2

(***************************************************************************)
(* State                                                                   *)
(***************************************************************************)

VARIABLES
    schema,     \* schema['definitions'], read once and never changed
    objs,       \* the definition objects by name: their class and self.imports
    results,    \* per object, what its code() and class_definition() calls returned
    pc,         \* where write_python_wrappers is: "start", "loop", "done", "failed"
    todo,       \* the names the definitions() generator has still to yield
    files,      \* the output directory: path (relative to codedir) -> content
    written,    \* the paths opened for writing, in order
    err,        \* the exception write_python_wrappers ended with
    root,       \* the descriptor any_attribute was called with
    stack,      \* the any_attribute calls in progress, the innermost last
    ret,        \* what the call that ended last returned or raised, until it is consumed
    simports    \* self.imports of the object any_attribute is called on

genVars == <<objs, results>>

runVars == <<pc, todo, files, written, err>>

resVars == <<root, stack, ret, simports>>

vars == <<schema, objs, results, pc, todo, files, written, err, root, stack, ret, simports>>

(***************************************************************************)
(* SpecGen: code() and class_definition() called on the definition objects *)
(* of a schema, in any order                                               *)
(***************************************************************************)

\* the names for which SchemaDefinition.init returns an object
Constructible(definitions) ==
    {n \in DOMAIN definitions : SchemaDefinition_init(n, definitions).ok}

\* set_imports with the list held by the class instead of the instance: every
\* object of the class of d sees the change
set_imports_shared(os, d, imports) ==
    [e \in DOMAIN os |-> IF os[e].cls = os[d].cls THEN [os[e] EXCEPT !.imports = imports]
                         ELSE os[e]]

\* self.imports of object d becomes imports; the list belongs to the instance
set_imports(os, d, imports) == [os EXCEPT ![d].imports = imports]

TotalCalls == LET RECURSIVE Sum(_)
                  Sum(S) == IF S = {} THEN 0
                            ELSE LET d == CHOOSE x \in S : TRUE
                                 IN  Len(results[d]) + Sum(S \ {d})
              IN  Sum(DOMAIN results)

InitGen ==
    /\ schema \in GenSchemas
    /\ objs = [d \in Constructible(schema) |->
                [cls |-> SchemaDefinition_init(d, schema).cls,
                 imports |-> SchemaDefinition_init(d, schema).imports]]
    /\ results = [d \in Constructible(schema) |-> <<>>]
    /\ pc = "idle" /\ todo = <<>> /\ files = <<>> /\ written = <<>> /\ err = NoError
    /\ root = <<>> /\ stack = <<>> /\ ret = NoReturn /\ simports = <<>>

\* obj.code() on the object of definition d
CallCode(d) ==
    /\ TotalCalls < MaxCalls
    /\ \E r \in {code(objs[d].cls, d, schema, objs[d].imports)} :
           /\ objs' = set_imports(objs, d, r.imports)
           /\ results' = [results EXCEPT ![d] =
                  Append(@, [fn |-> "code", ok |-> r.ok, text |-> r.text, err |-> r.err])]
    /\ UNCHANGED <<schema, runVars, resVars>>

\* obj.class_definition() on the object of definition d
CallClassDefinition(d) ==
    /\ TotalCalls < MaxCalls
    /\ \E r \in {class_definition(objs[d].cls, d, schema, objs[d].imports)} :
           /\ objs' = set_imports(objs, d, r.imports)
           /\ results' = [results EXCEPT ![d] =
                  Append(@, [fn |-> "class_definition", ok |-> r.ok, text |-> r.text,
                             err |-> r.err])]
    /\ UNCHANGED <<schema, runVars, resVars>>

NextGen ==
    \/ \E d \in DOMAIN objs : CallCode(d)
    \/ \E d \in DOMAIN objs : CallClassDefinition(d)

SpecGen == InitGen /\ [][NextGen]_vars

(***************************************************************************)
(* Properties of the generated class source (SpecGen)                      *)
(***************************************************************************)

RECURSIVE RefTargets(_)
\* the definitions a descriptor references: directly, in its items, in its alternatives
RefTargets(attr) ==
    (IF "$ref" \in DOMAIN attr /\ Len(split(attr["$ref"], <<"/">>)) = 3
     THEN {split(attr["$ref"], <<"/">>)[3]} ELSE {})
    \cup (IF "items" \in DOMAIN attr THEN RefTargets(attr["items"]) ELSE {})
    \cup (IF "oneOf" \in DOMAIN attr
          THEN UNION {RefTargets(attr["oneOf"][i]) : i \in DOMAIN attr["oneOf"]} ELSE {})

PropDict(d) == schema[d]["properties"]

\* the definitions referenced by the properties of object definition d
PropTargets(d) == UNION {RefTargets(PropDict(d)[i][2]) : i \in DOMAIN PropDict(d)}

ImportLine(name) == <<"f","r","o","m"," ",".">> \o Lower(name) \o <<" ","i","m","p","o","r","t"," ">> \o name

Count(seq, x) == Cardinality({i \in DOMAIN seq : seq[i] = x})

SameBag(s, t) == \A x \in {s[i] : i \in DOMAIN s} \cup {t[i] : i \in DOMAIN t} :
                    Count(s, x) = Count(t, x)

IsObject(d) == objs[d].cls = "ObjectDefinition"

\* exactly one call was made on the object of d, and it returned
GeneratedOnce(d) == Len(results[d]) = 1 /\ results[d][1].ok

\* what the call fn returns on a newly made object of definition d of a document
Fresh(fn, d, definitions) ==
    LET o == SchemaDefinition_init(d, definitions)
    IN  IF fn = "code" THEN code(o.cls, d, definitions, o.imports)
        ELSE class_definition(o.cls, d, definitions, o.imports)

\* C1: once the class source of an object definition has been generated, its
\* import list holds exactly one import line for each distinct definition that its
\* properties reference, however often the definition is referenced.
C1_OneImportPerTarget ==
    \A d \in DOMAIN objs :
        (IsObject(d) /\ GeneratedOnce(d)) =>
            /\ \A t \in PropTargets(d) : Count(objs[d].imports, ImportLine(t)) = 1
            /\ Len(objs[d].imports) = Len(ObjectDefinition_imports) + Cardinality(PropTargets(d))

\* C9: every class_definition() call on one object, whether the first call on it or
\* a later one, after code() or not, returns the text the first call on a new
\* object returns.
C9_Repeatable ==
    \A d \in DOMAIN objs : \A i \in DOMAIN results[d] :
        (results[d][i].fn = "class_definition" /\ results[d][i].ok) =>
            results[d][i].text = Fresh("class_definition", d, schema).text

\* C8: the first call on an object, whatever was called on the other objects
\* before, returns what it returns on that definition generated alone, and an
\* object on which nothing was called still has the import list it was made with.
C8_ImportsOwned ==
    \A d \in DOMAIN objs :
        /\ results[d] = <<>> => objs[d].imports = SchemaDefinition_init(d, schema).imports
        /\ results[d] # <<>> =>
              LET r == Fresh(results[d][1].fn, d, schema)
              IN  /\ results[d][1].ok = r.ok
                  /\ results[d][1].text = r.text
                  /\ results[d][1].err = r.err

\* C8 witness: two objects that both import other modules, each generated once
C8_Witness ==
    \E d \in DOMAIN objs : \E e \in DOMAIN objs \ {d} :
        /\ GeneratedOnce(d) /\ GeneratedOnce(e)
        /\ results[d][1].fn = "class_definition" /\ results[e][1].fn = "class_definition"
        /\ Len(objs[d].imports) > 2 /\ Len(objs[e].imports) > 2

\* the lines of a text that ends with a newline
Lines(text) == LET l == split(text, <<"\n">>) IN SubSeq(l, 1, Len(l) - 1)

\* the property name of a declaration line "    name = ..."
LineKey(line) == SplitHead(SubSeq(line, 5, Len(line)), <<" ","="," ">>)

\* C6: the text code() returns for an object definition is the class header
\* followed by exactly one declaration line per property, in strictly ascending
\* order of property name, whatever the order of the properties in the input.
C6_PropertiesSorted ==
    \A d \in DOMAIN objs : \A i \in DOMAIN results[d] :
        (IsObject(d) /\ results[d][i].fn = "code" /\ results[d][i].ok) =>
            LET lines == Lines(results[d][i].text)
                n == Len(PropDict(d))
            IN  /\ Len(lines) = n + 1
                /\ lines[1] = <<"c","l","a","s","s"," ">> \o d \o <<"(","B","a","s","e","O","b","j","e","c","t",")",":">>
                /\ \A j \in 2..(n + 1) : SubSeq(lines[j], 1, 4) = <<" "," "," "," ">>
                /\ {LineKey(lines[j]) : j \in 2..(n + 1)} = {PropDict(d)[j][1] : j \in 1..n}
                /\ \A j \in 2..n : TextLess(LineKey(lines[j]), LineKey(lines[j + 1]))

\* C6 witness: code() returned for a definition whose properties are declared in
\* descending order of name
C6_Witness ==
    \E d \in DOMAIN objs :
        /\ IsObject(d) /\ GeneratedOnce(d) /\ results[d][1].fn = "code"
        /\ Len(PropDict(d)) = 2 /\ TextLess(PropDict(d)[2][1], PropDict(d)[1][1])

\* the document with the alternatives of property k of definition d permuted by p
Permuted(d, k, p) ==
    LET alts == PropDict(d)[k][2]["oneOf"]
        attr == [PropDict(d)[k][2] EXCEPT !["oneOf"] = [i \in DOMAIN alts |-> alts[p[i]]]]
    IN  [schema EXCEPT ![d]["properties"][k][2] = attr]

\* the oneOf properties of d with every permutation of their alternatives
OneOfPermutations(d) ==
    UNION {{<<k, p>> : p \in Permutations(DOMAIN PropDict(d)[k][2]["oneOf"])} :
             k \in {j \in DOMAIN PropDict(d) : "oneOf" \in DOMAIN PropDict(d)[j][2]}}

\* the class body in the text class_definition() returns: what follows the imports
CodePart(text) == SubSeq(text, Min(Occurrences(text, <<"\n","\n","\n">>)) + 3, Len(text))

\* C5 as stated: permuting the alternatives of a oneOf property leaves the text
\* returned by class_definition(), import block included, byte-identical.
C5_PermutationSameSource ==
    \A d \in DOMAIN objs :
        (IsObject(d) /\ GeneratedOnce(d) /\ results[d][1].fn = "class_definition") =>
            \A kp \in OneOfPermutations(d) :
                results[d][1].text
                    = Fresh("class_definition", d, Permuted(d, kp[1], kp[2])).text

\* C5 amended: permuting the alternatives of a oneOf property leaves the class body
\* (the rendered union text included) unchanged and the import list holds the same
\* lines the same number of times; only the order of the import lines may change.
C5_PermutationSameBody ==
    \A d \in DOMAIN objs :
        (IsObject(d) /\ GeneratedOnce(d)) =>
            \A kp \in OneOfPermutations(d) :
                LET r == Fresh(results[d][1].fn, d, Permuted(d, kp[1], kp[2]))
                IN  /\ r.ok
                    /\ SameBag(objs[d].imports, r.imports)
                    /\ results[d][1].fn = "code" => results[d][1].text = r.text
                    /\ results[d][1].fn = "class_definition" =>
                          /\ CodePart(results[d][1].text) = CodePart(r.text)
                          /\ SameBag(Lines(results[d][1].text), Lines(r.text))

\* C5 witness: a class source was generated for a definition with a oneOf property
\* whose alternatives reference two different definitions
C5_Witness ==
    \E d \in DOMAIN objs :
        /\ IsObject(d) /\ GeneratedOnce(d) /\ results[d][1].fn = "class_definition"
        /\ \E k \in DOMAIN PropDict(d) :
              /\ "oneOf" \in DOMAIN PropDict(d)[k][2]
              /\ Cardinality(RefTargets(PropDict(d)[k][2])) = 2

(***************************************************************************)
(* SpecRun: VegaLiteSchema.write_python_wrappers on an empty directory     *)
(***************************************************************************)

\* the most definitions a document of SpecRun holds
MaxDefs == 2

NamePool == {n_A, n_B, n_a}

\* the definitions of the documents of SpecRun
RunDefs ==
    { ObjectDef(<<>>),
      ObjectDef(<<<<<<"x">>, ("type" :> s_number) @@ ("maximum" :> 10)>>>>),
      ObjectDef(<<<<<<"x">>, Ref(n_B)>>>>),
      ObjectDef(<<<<<<"x">>, <<>>>>>>),
      StringDef, EnumDef(<<<<"x">>, <<"y">>>>), ArrayDef }

RunSchemas ==
    UNION {[N -> RunDefs] : N \in {M \in SUBSET NamePool : M # {} /\ Cardinality(M) <= MaxDefs}}

RECURSIVE SetToSeq(_)
\* the elements of a set, in some order
SetToSeq(S) ==
    IF S = {} THEN <<>>
    ELSE LET x == CHOOSE y \in S : TRUE IN <<x>> \o SetToSeq(S \ {x})

\* the names VegaLiteSchema.definitions yields, in order
definitions_names(definitions) == sorted(SetToSeq(DOMAIN definitions))

\* module_name without lower(): the module named as the definition is
module_name_verbatim(name) == name

\* module = name.lower()
module_name(name) == Lower(name)

codepath(module) == module \o <<".","p","y">>

testpath(module) == <<"t","e","s","t","s","/","t","e","s","t","_">> \o module \o <<".","p","y">>

p_init == <<"_","_","i","n","i","t","_","_",".","p","y">>

p_tests_init == <<"t","e","s","t","s","/","_","_","i","n","i","t","_","_",".","p","y">>

index_header == <<"\"","\"","\"","A","u","t","o","-","g","e","n","e","r","a","t","e","d"," ","P","y","t","h","o","n"," ","w","r","a","p","p","e","r","s"," ","f","o","r"," ","v","e","g","a","l","i","t","e"," ","s","c","h","e","m","a","\"","\"","\"","\n">>

tests_header == <<"\"","\"","\"","A","u","t","o","-","g","e","n","e","r","a","t","e","d"," ","u","n","i","t"," ","t","e","s","t","s"," ","w","r","a","p","p","e","r","s"," ","f","o","r"," ","v","e","g","a","l","i","t","e"," ","s","c","h","e","m","a","\"","\"","\"","\n">>

index_entry(module, name) == <<"\n","f","r","o","m"," ",".">> \o module \o <<" ","i","m","p","o","r","t"," ">> \o name

\* open(path, 'w') and write(text): the file is created or replaced
WriteFile(fs, path, text) == [p \in DOMAIN fs \cup {path} |-> IF p = path THEN text ELSE fs[p]]

InitRun ==
    /\ schema \in RunSchemas
    /\ objs = <<>> /\ results = <<>>
    /\ pc = "start" /\ todo = <<>> /\ files = <<>> /\ written = <<>> /\ err = NoError
    /\ root = <<>> /\ stack = <<>> /\ ret = NoReturn /\ simports = <<>>

\* write_python_wrappers up to the loop: both __init__.py files are opened and
\* their docstrings written, the generator is made
RunBegin ==
    /\ pc = "start"
    /\ files' = WriteFile(WriteFile(files, p_tests_init, tests_header), p_init, index_header)
    /\ written' = written \o <<p_tests_init, p_init>>
    /\ todo' = definitions_names(schema)
    /\ pc' = "loop"
    /\ UNCHANGED <<schema, genVars, resVars, err>>

\* one turn of the loop: the generator makes the object of the next name, then the
\* class module is opened and written, then the test module, then the index entry.
\* An exception leaves the loop and the function.
RunIterate ==
    /\ pc = "loop" /\ todo # <<>>
    /\ \E name \in {Head(todo)} :
       \E o \in {SchemaDefinition_init(name, schema)} :
       \E module \in {module_name(name)} :
           IF ~o.ok
           THEN /\ pc' = "failed" /\ err' = o.err
                /\ UNCHANGED <<files, written, todo>>
           ELSE \E r \in {class_definition(o.cls, name, schema, o.imports)} :
                IF ~r.ok
                THEN \* open(codepath, 'w') has run before class_definition() raises
                     /\ pc' = "failed" /\ err' = r.err
                     /\ files' = WriteFile(files, codepath(module), <<>>)
                     /\ written' = Append(written, codepath(module))
                     /\ UNCHANGED todo
                ELSE /\ files' = WriteFile(
                                     WriteFile(
                                       WriteFile(files, codepath(module), r.text),
                                       testpath(module), test_script(name)),
                                     p_init, files[p_init] \o index_entry(module, name))
                     /\ written' = written \o <<codepath(module), testpath(module)>>
                     /\ todo' = Tail(todo)
                     /\ UNCHANGED <<pc, err>>
    /\ UNCHANGED <<schema, genVars, resVars>>

\* the generator is exhausted: the index is closed, " > success!"
RunEnd ==
    /\ pc = "loop" /\ todo = <<>>
    /\ pc' = "done"
    /\ UNCHANGED <<schema, genVars, resVars, todo, files, written, err>>

NextRun == RunBegin \/ RunIterate \/ RunEnd

SpecRun == InitRun /\ [][NextRun]_vars

(***************************************************************************)
(* Properties of a run (SpecRun)                                           *)
(***************************************************************************)

\* the error SchemaDefinition.init raises for a definition of type typ
UnsupportedKind(typ) ==
    [exc |-> "NotImplementedError", msg |-> <<"D","e","f","i","n","i","t","i","o","n"," ","t","y","p","e","=","'">> \o typ \o <<"'">>]

\* C2: when the run fails on a definition whose type is neither 'object' nor
\* 'string', nothing has been generated: no class module, no test module and no
\* index entry, for any definition.
C2_NoPartialGeneration ==
    (pc = "failed" /\ \E n \in DOMAIN schema : err = UnsupportedKind(schema[n]["type"])) =>
        /\ DOMAIN files \subseteq {p_init, p_tests_init}
        /\ files[p_init] = index_header

\* no two definition names have the same lower-case form
UniqueModules == \A m \in DOMAIN schema : \A n \in DOMAIN schema : m # n => Lower(m) # Lower(n)

\* the index entries: the lines of __init__.py after its docstring line; the
\* docstring ends with a newline and every entry starts with one
IndexEntries == Tail(Tail(split(files[p_init], <<"\n">>)))

\* the class an index entry "from .module import Name" names
EntryName(entry) == LET i == Min(Occurrences(entry, <<" ","i","m","p","o","r","t"," ">>))
                    IN  SubSeq(entry, i + 8, Len(entry))

\* C7: a completed run on a document whose names are unique case-insensitively
\* has written, in ascending order of definition name, one class module named
\* by the lower-case name, one test module and one index entry per definition:
\* no two definitions share a module, the index lists every definition once.
C7_OneModulePerDefinition ==
    (pc = "done" /\ UniqueModules) =>
        LET n == Cardinality(DOMAIN schema)
            name == [i \in 1..Len(IndexEntries) |-> EntryName(IndexEntries[i])]
        IN  /\ Len(IndexEntries) = n
            /\ {name[i] : i \in 1..n} = DOMAIN schema
            /\ \A i \in 1..(n - 1) : TextLess(name[i], name[i + 1])
            /\ \A i \in 1..n :
                  IndexEntries[i] = <<"f","r","o","m"," ",".">> \o Lower(name[i]) \o <<" ","i","m","p","o","r","t"," ">> \o name[i]
            /\ Len(written) = 2 + 2 * n
            /\ \A i \in 1..n :
                  /\ written[2 * i + 1] = Lower(name[i]) \o <<".","p","y">>
                  /\ written[2 * i + 2] = <<"t","e","s","t","s","/","t","e","s","t","_">> \o Lower(name[i]) \o <<".","p","y">>
                  /\ files[written[2 * i + 1]] = Fresh("class_definition", name[i], schema).text
                  /\ files[written[2 * i + 2]] = test_script(name[i])
            /\ Cardinality(DOMAIN files) = 2 + 2 * n

\* C7 witness: a completed run on a document of two definitions with different
\* modules, not both lower-case
C7_Witness ==
    /\ pc = "done" /\ UniqueModules /\ Cardinality(DOMAIN schema) >= 2
    /\ \E n \in DOMAIN schema : Lower(n) # n

(***************************************************************************)
(* SpecResolve: one call of any_attribute, a step per call and per return  *)
(***************************************************************************)

\* the nesting depth of the descriptors resolved in SpecResolve
MaxDepth == 2

n_S == <<"S">>

n_X == <<"X">>

n_Z == <<"Z">>

\* a document whose definitions reference themselves and each other
CyclicSchema ==
    (n_A :> ObjectDef(<<<<<<"b">>, Ref(n_B)>>, <<<<"s","e","l","f">>, Ref(n_A)>>>>))
    @@ (n_B :> ObjectDef(<<<<<<"a">>, Ref(n_A)>>>>))
    @@ (n_S :> EnumDef(<<<<"x">>, <<"y">>>>))
    @@ (n_X :> ArrayDef)

d_note == <<"A"," ","n","o","t","e">>

\* descriptors without nesting: typed, references, no key, more than one key
Leaves ==
    {("type" :> t) : t \in {s_boolean, s_number, s_string, s_object, s_integer, s_array}}
    \cup { ("type" :> s_number) @@ ("minimum" :> 0) @@ ("maximum" :> 10)
                @@ ("description" :> d_size),
           ("type" :> s_string) @@ ("description" :> d_note) }
    \cup {Ref(n) : n \in {n_A, n_B, n_S, n_X, n_Z}}
    \cup { Ref(n_A) @@ ("description" :> d_note), Ref(n_S) @@ ("description" :> d_note),
           ("$ref" :> <<"#","/","B">>) }
    \cup { <<>>, ("description" :> d_note) }
    \cup { ("type" :> s_number) @@ Ref(n_A),
           ("type" :> s_boolean) @@ OneOf(<<Ref(n_S)>>),
           Ref(n_S) @@ OneOf(<<("type" :> s_string)>>),
           ("type" :> s_object) @@ Ref(n_B) @@ OneOf(<<<<>>>>) }

\* the second alternatives of the unions
Seconds == {("type" :> s_boolean), Ref(n_A), ("type" :> s_string) @@ ("description" :> d_note)}

RECURSIVE Attrs(_)
\* the descriptors of nesting depth at most depth
Attrs(depth) ==
    IF depth = 0 THEN Leaves
    ELSE LET inner == Attrs(depth - 1)
         IN  inner
             \cup {ArrayOf(x) : x \in inner}
             \cup {OneOf(<<x, y>>) : x \in inner, y \in Seconds}
             \cup {OneOf(<<x>>) @@ ("description" :> d_note) : x \in inner}

Front(seq) == SubSeq(seq, 1, Len(seq) - 1)

Frame(attr_dict) == [attr |-> attr_dict, types |-> <<>>]

Outcome(r) == [ok |-> r.ok, text |-> r.text, err |-> r.err]

InitResolve ==
    /\ schema = CyclicSchema
    /\ root \in Attrs(MaxDepth)
    /\ stack = <<Frame(root)>>
    /\ ret = NoReturn
    /\ simports = ObjectDefinition_imports
    /\ objs = <<>> /\ results = <<>>
    /\ pc = "idle" /\ todo = <<>> /\ files = <<>> /\ written = <<>> /\ err = NoError

\* the innermost call runs up to its first call of any_attribute, or to its end
\* when it makes none
ResolveEnter ==
    /\ stack # <<>> /\ ret = NoReturn
    /\ \E attr \in {stack[Len(stack)].attr} :
       \E kids \in {children(schema, attr)} :
           IF kids = <<>>
           THEN \E r \in {any_attribute(schema, simports, attr)} :
                /\ stack' = Front(stack)
                /\ ret' = Outcome(r)
                /\ simports' = r.imports
           ELSE /\ stack' = Append(stack, Frame(kids[1]))
                /\ UNCHANGED <<ret, simports>>
    /\ UNCHANGED <<schema, root, genVars, runVars>>

\* a call has ended and the call that made it goes on: the exception passes
\* through it, or it makes its next call, or it returns
ResolveResume ==
    /\ stack # <<>> /\ ret # NoReturn
    /\ \E top \in {stack[Len(stack)]} :
       \E kids \in {children(schema, top.attr)} :
       \E types \in {Append(top.types, ret.text)} :
           IF ~ret.ok
           THEN /\ stack' = Front(stack)
                /\ UNCHANGED <<ret, simports>>
           ELSE IF Len(types) < Len(kids)
           THEN /\ stack' = Front(stack)
                             \o <<[top EXCEPT !.types = types], Frame(kids[Len(types) + 1])>>
                /\ ret' = NoReturn
                /\ UNCHANGED simports
           ELSE \E r \in {resumed(schema, simports, top.attr, types)} :
                /\ stack' = Front(stack)
                /\ ret' = Outcome(r)
                /\ simports' = r.imports
    /\ UNCHANGED <<schema, root, genVars, runVars>>

NextResolve == ResolveEnter \/ ResolveResume

SpecResolve == InitResolve /\ [][NextResolve]_vars

(***************************************************************************)
(* Properties of attribute resolution (SpecResolve)                        *)
(***************************************************************************)

\* the outermost call has returned or raised
Resolved == stack = <<>> /\ ret # NoReturn

\* the steps compute what any_attribute computes
StepsAgree ==
    Resolved =>
        LET r == any_attribute(schema, ObjectDefinition_imports, root)
        IN  ret = Outcome(r) /\ simports = r.imports

\* how many brackets are open at position i of a text
Nesting(text, i) ==
    Cardinality({j \in 1..(i - 1) : text[j] \in {"(", "["}})
    - Cardinality({j \in 1..(i - 1) : text[j] \in {")", "]"}})

\* the rendered attribute holds kwd among its own keyword arguments
HasKeyword(text, kwd) == \E i \in Occurrences(text, kwd) : Nesting(text, i) = 1

\* C3: every attribute any_attribute returns, whichever branch made it, has
\* allow_none=True and default_value=None among its own keyword arguments, and
\* help=... when its descriptor has a description.
C3_CommonKeywords ==
    (Resolved /\ ret.ok) =>
        /\ HasKeyword(ret.text, <<"a","l","l","o","w","_","n","o","n","e","=","T","r","u","e">>)
        /\ HasKeyword(ret.text, <<"d","e","f","a","u","l","t","_","v","a","l","u","e","=","N","o","n","e">>)
        /\ "description" \in DOMAIN root => HasKeyword(ret.text, <<"h","e","l","p","=","\"","\"","\"">>)

\* how many of the keys 'type', '$ref', 'oneOf' a descriptor holds
SelectorKeys(attr) == Cardinality(DOMAIN attr \cap {"type", "$ref", "oneOf"})

Decisive(attr) ==
    LET drop == IF "type" \in DOMAIN attr THEN {"$ref", "oneOf"}
                ELSE IF "$ref" \in DOMAIN attr THEN {"oneOf"} ELSE {}
    IN  [k \in DOMAIN attr \ drop |-> attr[k]]

RECURSIVE Reached(_)
\* the descriptors any_attribute can be called on while it resolves attr
Reached(attr) ==
    {attr} \cup UNION {Reached(children(schema, attr)[i]) : i \in DOMAIN children(schema, attr)}

RECURSIVE NestingDepth(_)
\* the array/oneOf nesting depth of a descriptor: 1 without items and alternatives
NestingDepth(attr) ==
    LET inner == (IF "items" \in DOMAIN attr THEN {attr["items"]} ELSE {})
                 \cup (IF "oneOf" \in DOMAIN attr
                       THEN {attr["oneOf"][i] : i \in DOMAIN attr["oneOf"]} ELSE {})
    IN  1 + Max({0} \cup {NestingDepth(a) : a \in inner})

\* the descriptors written inside a descriptor: its items, then its alternatives
Nested(attr) ==
    (IF "items" \in DOMAIN attr THEN <<attr["items"]>> ELSE <<>>)
    \o (IF "oneOf" \in DOMAIN attr THEN attr["oneOf"] ELSE <<>>)

RECURSIVE SumSeq(_)
SumSeq(seq) == IF seq = <<>> THEN 0 ELSE seq[1] + SumSeq(Tail(seq))

RECURSIVE Cost(_)
\* a bound on the steps of a call on a descriptor, from the descriptor alone: the
\* call itself and, for each descriptor written inside it, that call and its return
Cost(attr) == 1 + SumSeq([i \in DOMAIN Nested(attr) |-> Cost(Nested(attr)[i]) + 1])

\* the steps the call of frame i of the stack can still take, the calls above it
\* not counted
FrameRemaining(i) ==
    IF i = Len(stack) /\ ret = NoReturn THEN Cost(stack[i].attr)
    ELSE LET inner == Nested(stack[i].attr)
             c == Len(stack[i].types)
         IN  (Len(inner) - c)
             + SumSeq([j \in 1..(Len(inner) - c - 1) |-> Cost(inner[c + 1 + j])])

\* a bound on the steps left, which only the descriptor being resolved decides
Remaining == SumSeq([i \in DOMAIN stack |-> FrameRemaining(i)])

\* C10: resolving a descriptor ends, also when the definitions it references form
\* a cycle: every step lowers a bound on the steps left that is computed from the
\* descriptor alone, not from the definitions it references, and the any_attribute
\* calls in progress are never more than its array/oneOf nesting depth.
C10_Terminates ==
    /\ [](Len(stack) <= NestingDepth(root) /\ Remaining >= 0)
    /\ [][Remaining' < Remaining]_vars

\* C10 witness: a nested descriptor that references a definition of a cycle has
\* been resolved
C10_Witness ==
    /\ Resolved /\ ret.ok /\ NestingDepth(root) >= 2
    /\ n_A \in RefTargets(root)
    /\ n_B \in PropTargets(n_A) /\ n_A \in PropTargets(n_B)

====
